---- MODULE Spec2Model ----
(***************************************************************************)
(* Model of buildbotinfo: the pipeline cli -> get_builds -> Builds ->      *)
(* output_as -> to_email -> stdout of src/buildbotinfo.py over the domain  *)
(* objects of src/buildbot.py (imported there as buildbotlib).             *)
(*                                                                         *)
(* Python values are represented as follows.                               *)
(*   str       a tuple of one-character strings, <<"b", "-", "*">>         *)
(*   list      a tuple of values                                           *)
(*   None/str/list arguments are tagged records [type |-> ..., v |-> ...]  *)
(*   datetime  an integer, minutes since the epoch                         *)
(* A rendered text is the list of its lines; a line that values are        *)
(* formatted into is the record of those values.                           *)
(*                                                                         *)
(* A value that several conjuncts of an action use is bound once with      *)
(* \E x \in {e}.                                                           *)
(***************************************************************************)
EXTENDS Integers, Sequences, FiniteSets, TLC

VARIABLES
    server,     \* the remote buildbot: builder names and per-builder build records
    args,       \* the arguments cli() was called with
    pc,         \* where the run is
    pi,         \* get_builds: number of patterns whose builder listing was started
    matched,    \* get_builds: builders produced by bb.builders(pattern) for the current pattern
    bi,         \* get_builds: index into matched of the next builder to fetch
    yielded,    \* builds yielded so far by the get_builds generator
    calls,      \* remote calls performed, in order
    builds,     \* Builds.builds
    stdout,     \* texts written to sys.stdout
    error       \* the exception propagating out of cli, or "none"

vars == <<server, args, pc, pi, matched, bi, yielded, calls, builds, stdout, error>>

----------------------------------------------------------------------------
(* Bounds of the model *)

MaxBuilds == 2      \* build records a builder has on the server
MaxPatterns == 2    \* length of a list given as the pattern argument
MaxN == 2           \* largest latest_n_builds
MaxInput == 3       \* length of an iterable handed directly to Builds

----------------------------------------------------------------------------
(* Strings *)

Ascii == <<
    " ", "!", "QUOTE", "#", "$", "%", "&", "'", "(", ")", "*", "+", ",", "-", ".", "/",
    "0", "1", "2", "3", "4", "5", "6", "7", "8", "9", ":", ";", "<", "=", ">", "?",
    "@", "A", "B", "C", "D", "E", "F", "G", "H", "I", "J", "K", "L", "M", "N", "O",
    "P", "Q", "R", "S", "T", "U", "V", "W", "X", "Y", "Z", "[", "BACKSLASH", "]", "^", "_",
    "BACKTICK", "a", "b", "c", "d", "e", "f", "g", "h", "i", "j", "k", "l", "m", "n", "o",
    "p", "q", "r", "s", "t", "u", "v", "w", "x", "y", "z", "{", "|", "}", "~" >>

\* code point of a character; the characters 34, 92 and 96 are written QUOTE,
\* BACKSLASH and BACKTICK
ord == [c \in {Ascii[i] : i \in 1..Len(Ascii)} |->
            31 + (CHOOSE i \in 1..Len(Ascii) : Ascii[i] = c)]

chr(n) == Ascii[n - 31]

\* str.lower()
lower(s) == [i \in 1..Len(s) |->
                IF ord[s[i]] \in 65..90 THEN chr(ord[s[i]] + 32) ELSE s[i]]

\* str.upper()
upper(s) == [i \in 1..Len(s) |->
                IF ord[s[i]] \in 97..122 THEN chr(ord[s[i]] - 32) ELSE s[i]]

\* a < b on str: lexicographic by code point
RECURSIVE str_lt(_, _)
str_lt(a, b) ==
    IF b = <<>> THEN FALSE
    ELSE IF a = <<>> THEN TRUE
    ELSE IF Head(a) = Head(b) THEN str_lt(Tail(a), Tail(b))
    ELSE ord[Head(a)] < ord[Head(b)]

\* str.rstrip(ch)
RECURSIVE rstrip(_, _)
rstrip(s, ch) ==
    IF s # <<>> /\ s[Len(s)] = ch THEN rstrip(SubSeq(s, 1, Len(s) - 1), ch) ELSE s

Range(s) == {s[i] : i \in DOMAIN s}

Min(S) == CHOOSE x \in S : \A y \in S : x <= y

\* fnmatch.translate: the index of the "]" that closes the class whose first
\* character is pat[i], or 0 when there is none and the "[" is a literal
class_end(pat, i) ==
    LET j1 == IF i <= Len(pat) /\ pat[i] = "!" THEN i + 1 ELSE i
        j2 == IF j1 <= Len(pat) /\ pat[j1] = "]" THEN j1 + 1 ELSE j1
        closing == {j \in j2..Len(pat) : pat[j] = "]"}
    IN  IF closing = {} THEN 0 ELSE Min(closing)

\* fnmatch.translate: pat[i..j-1] cut at the hyphens that make a range; the
\* search for the next hyphen starts at k
RECURSIVE class_chunks(_, _, _, _)
class_chunks(pat, i, k, j) ==
    LET hyphens == {h \in k..(j - 1) : pat[h] = "-"}
    IN  IF hyphens = {} THEN <<SubSeq(pat, i, j - 1)>>
        ELSE LET h == Min(hyphens)
             IN  <<SubSeq(pat, i, h - 1)>> \o class_chunks(pat, h + 1, h + 3, j)

\* fnmatch.translate: a hyphen that ends the class is a character of it
close_chunks(chunks) ==
    LET n == Len(chunks)
    IN  IF n > 1 /\ chunks[n] = <<>>
        THEN [c \in 1..(n - 1) |-> IF c = n - 1 THEN chunks[c] \o <<"-">> ELSE chunks[c]]
        ELSE chunks

\* fnmatch.translate: "Remove empty ranges", for k from k down to 1
RECURSIVE drop_empty_ranges(_, _)
drop_empty_ranges(chunks, k) ==
    IF k < 2 THEN chunks
    ELSE IF ord[chunks[k - 1][Len(chunks[k - 1])]] > ord[chunks[k][1]]
    THEN drop_empty_ranges(
             [c \in 1..(Len(chunks) - 1) |->
                 IF c < k - 1 THEN chunks[c]
                 ELSE IF c = k - 1
                 THEN SubSeq(chunks[k - 1], 1, Len(chunks[k - 1]) - 1) \o Tail(chunks[k])
                 ELSE chunks[c + 1]],
             k - 1)
    ELSE drop_empty_ranges(chunks, k - 1)

\* the characters of the chunks, and those of the ranges between a chunk's
\* last character and the next chunk's first
chunk_chars(chunks) ==
    UNION {Range(chunks[c]) : c \in DOMAIN chunks}
    \cup {x \in DOMAIN ord :
            \E c \in 1..(Len(chunks) - 1) :
                /\ ord[chunks[c][Len(chunks[c])]] <= ord[x]
                /\ ord[x] <= ord[chunks[c + 1][1]]}

\* the character ch matches the class pat[i..j-1] (the text between "[" and
\* its closing "]")
in_class(ch, pat, i, j) ==
    LET cut == close_chunks(class_chunks(pat, i, IF pat[i] = "!" THEN i + 2 ELSE i + 1, j))
        chunks == drop_empty_ranges(cut, Len(cut))
    IN  IF chunks = << <<>> >> THEN FALSE
        ELSE IF chunks = << <<"!">> >> THEN TRUE
        ELSE IF chunks[1][1] = "!"
        THEN ch \notin chunk_chars([c \in DOMAIN chunks |->
                                       IF c = 1 THEN Tail(chunks[1]) ELSE chunks[c]])
        ELSE ch \in chunk_chars(chunks)

\* re.match of the translation of pat[j..] on name[i..]
RECURSIVE fn_match(_, _, _, _)
fn_match(name, i, pat, j) ==
    IF j > Len(pat) THEN i > Len(name)
    ELSE IF pat[j] = "*"
        THEN \E k \in i..(Len(name) + 1) : fn_match(name, k, pat, j + 1)
    ELSE IF pat[j] = "?"
        THEN i <= Len(name) /\ fn_match(name, i + 1, pat, j + 1)
    ELSE IF pat[j] = "[" /\ class_end(pat, j + 1) # 0
        THEN /\ i <= Len(name)
             /\ in_class(name[i], pat, j + 1, class_end(pat, j + 1))
             /\ fn_match(name, i + 1, pat, class_end(pat, j + 1) + 1)
    ELSE i <= Len(name) /\ name[i] = pat[j] /\ fn_match(name, i + 1, pat, j + 1)

\* fnmatch.fnmatch(name, pat) where os.path.normcase is the identity (posix):
\* "*", "?", "[seq]" and "[!seq]", anything else a literal
fnmatch(name, pat) == fn_match(name, 1, pat, 1)

Hex == <<"0", "1", "2", "3", "4", "5", "6", "7", "8", "9", "A", "B", "C", "D", "E", "F">>

RECURSIVE concat(_)
concat(ss) == IF ss = <<>> THEN <<>> ELSE Head(ss) \o concat(Tail(ss))

\* urllib.parse.quote(s): letters, digits and "_.-~/" stay, any other
\* character becomes "%" and its code in two hex digits
quote(s) ==
    LET Safe(c) == \/ ord[c] \in (48..57) \cup (65..90) \cup (97..122)
                   \/ c \in {"_", ".", "-", "~", "/"}
    IN  concat([i \in 1..Len(s) |->
                   IF Safe(s[i]) THEN <<s[i]>>
                   ELSE <<"%", Hex[(ord[s[i]] \div 16) + 1], Hex[(ord[s[i]] % 16) + 1]>>])

\* "%d" % n
RECURSIVE str_int(_)
str_int(n) ==
    IF n < 0 THEN <<"-">> \o str_int(-n)
    ELSE IF n < 10 THEN <<chr(48 + n)>>
    ELSE str_int(n \div 10) \o <<chr(48 + (n % 10))>>

\* s.split(sep) for a one-character separator
RECURSIVE split(_, _)
split(s, sep) ==
    LET at == {i \in DOMAIN s : s[i] = sep}
    IN  IF at = {} THEN <<s>>
        ELSE <<SubSeq(s, 1, Min(at) - 1)>> \o split(SubSeq(s, Min(at) + 1, Len(s)), sep)

\* s.split(): the runs of characters other than whitespace
RECURSIVE split_whitespace(_)
split_whitespace(s) ==
    IF s = <<>> THEN <<>>
    ELSE IF Head(s) = " " THEN split_whitespace(Tail(s))
    ELSE LET stops == {i \in DOMAIN s : s[i] = " "}
             n == IF stops = {} THEN Len(s) ELSE Min(stops) - 1
         IN  <<SubSeq(s, 1, n)>> \o split_whitespace(SubSeq(s, n + 1, Len(s)))

\* separator.join(parts)
RECURSIVE join(_, _)
join(separator, parts) ==
    IF parts = <<>> THEN <<>>
    ELSE IF Len(parts) = 1 THEN parts[1]
    ELSE parts[1] \o separator \o join(separator, Tail(parts))

----------------------------------------------------------------------------
(* Time *)

Now == 100000               \* datetime.datetime.now(), minutes since the epoch
DatetimeMin == -1035593280  \* datetime.datetime.min, 0001-01-01 00:00

\* datetime.timedelta(minutes=m)
timedelta(m) == m

\* datetime.datetime.fromtimestamp(seconds), to the minute
fromtimestamp(ts) == ts \div 60

----------------------------------------------------------------------------
(* Domain model, src/buildbot.py *)

\* Buildbot.__init__ ; the XML-RPC proxy is the variable server
Buildbot(url, repo_url) ==
    [url      |-> rstrip(url, "/") \o <<"/">>,
     name     |-> rstrip(url, "/") \o <<"/">>,
     repo_url |-> rstrip(repo_url, "/") \o <<"/">>]

\* Buildbot.__eq__
Buildbot_eq(a, b) == a.name = b.name

\* Buildbot.__hash__ ; equal values stand for equal hashes
Buildbot_hash(a) == a.name

\* Builder.__init__
Builder(buildbot, name) ==
    [name     |-> name,
     buildbot |-> buildbot,
     url      |-> buildbot.url
                  \o <<"/", "a", "l", "l", "/", "b", "u", "i", "l", "d", "e", "r", "s", "/">>
                  \o quote(name)]

\* Builder.__eq__
Builder_eq(a, b) == Buildbot_eq(a.buildbot, b.buildbot) /\ a.name = b.name

\* Builder.__hash__
Builder_hash(a) == <<Buildbot_hash(a.buildbot), a.name>>

\* Build.__init__ ; kwargs is a record, sequence is popped from it
Build(builder, kwargs) ==
    [builder  |-> builder,
     sequence |-> kwargs.sequence,
     url      |-> builder.url \o <<"/", "b", "u", "i", "l", "d", "s", "/">>
                  \o str_int(kwargs.sequence),
     _info    |-> [f \in DOMAIN kwargs \ {"sequence"} |-> kwargs[f]]]

\* Build.__eq__
Build_eq(a, b) == Builder_eq(a.builder, b.builder) /\ a.sequence = b.sequence

\* Build.__hash__ ; self.name is looked up in _info by __getattr__
Build_hash(a) == <<Builder_hash(a.builder), a._info.name>>

----------------------------------------------------------------------------
(* The remote buildbot *)

\* _proxy.getAllBuilders()
getAllBuilders(srv) == srv.builders

\* _proxy.getLastBuilds(name, n): the n most recent records, newest first
getLastBuilds(srv, name, n) ==
    LET h == srv.history[name]
    IN  SubSeq(h, 1, IF n < Len(h) THEN n ELSE Len(h))

\* Buildbot.builders without the fnmatch test
builders_unfiltered(bb, srv, pattern) ==
    LET names == getAllBuilders(srv)
    IN  [i \in 1..Len(names) |-> Builder(bb, names[i])]

\* Buildbot.builders(pattern)
builders(bb, srv, pattern) ==
    LET names == getAllBuilders(srv)
        Matches(name) == fnmatch(name, pattern)
        sel == SelectSeq(names, Matches)
    IN  [i \in 1..Len(sel) |-> Builder(bb, sel[i])]

\* Builder.last_n_builds(n_builds)
last_n_builds(builder, srv, n_builds) ==
    LET raw == getLastBuilds(srv, builder.name, n_builds)
    IN  [i \in 1..Len(raw) |->
            Build(builder,
                  [name        |-> raw[i][1],
                   sequence    |-> raw[i][2],
                   started_at  |-> fromtimestamp(raw[i][3]),
                   finished_at |-> fromtimestamp(raw[i][4]),
                   branch      |-> raw[i][5],
                   revision    |-> raw[i][6],
                   result      |-> raw[i][7],
                   text        |-> raw[i][8],
                   reasons     |-> raw[i][9]])]

----------------------------------------------------------------------------
(* Builds, src/buildbotinfo.py *)

\* the sort key of Builds.__init__
SortKey(b) == <<b.builder.buildbot.name, b.builder.name, -1 * b.sequence>>

\* k1 < k2 on (str, str, int) tuples
key_lt(k1, k2) ==
    IF k1[1] # k2[1] THEN str_lt(k1[1], k2[1])
    ELSE IF k1[2] # k2[2] THEN str_lt(k1[2], k2[2])
    ELSE k1[3] < k2[3]

\* membership test of a set: same hash and equal
same_element(a, b) == Build_hash(a) = Build_hash(b) /\ Build_eq(a, b)

\* set(builds): the first of each group of same elements is kept; the
\* elements are listed here in the order of their insertion
set_of(bs) ==
    LET Kept(j) == \A k \in 1..(j - 1) : ~same_element(bs[k], bs[j])
    IN  concat([j \in 1..Len(bs) |-> IF Kept(j) THEN <<bs[j]>> ELSE <<>>])

\* the orders in which a set of these elements can be iterated: the order
\* follows the hashes of strings, which change from run to run
set_iter(s) == {[i \in 1..Len(s) |-> s[p[i]]] : p \in Permutations(1..Len(s))}

\* sorted(s, key=SortKey), a stable sort: an element comes after those of a
\* smaller key and after those of its own key that come before it in s
sorted(s) ==
    LET Ahead(i) == {j \in DOMAIN s :
                        \/ key_lt(SortKey(s[j]), SortKey(s[i]))
                        \/ SortKey(s[j]) = SortKey(s[i]) /\ j < i}
    IN  [r \in 1..Len(s) |-> s[CHOOSE i \in DOMAIN s : Cardinality(Ahead(i)) = r - 1]]

\* Builds.__init__: the lists self.builds can be. The order of iteration
\* shows in the result only between elements of equal keys, so a set without
\* such elements is sorted from one order.
Builds(bs) ==
    UNION { IF \A i, j \in DOMAIN s : i # j => SortKey(s[i]) # SortKey(s[j])
            THEN {sorted(s)}
            ELSE {sorted(o) : o \in set_iter(s)} :
            s \in {set_of(bs)} }

\* Builds.as_text, a list of lines; a build line is kept as its fields
RECURSIVE text_lines(_, _, _)
text_lines(bs, bb, builder) ==
    IF bs = <<>> THEN <<>>
    ELSE LET build == Head(bs)
             new_bb == bb = <<>> \/ ~Buildbot_eq(build.builder.buildbot, bb[1])
             new_builder == builder = <<>> \/ ~Builder_eq(build.builder, builder[1])
         IN  (IF new_bb
                THEN << <<>>, build.builder.buildbot.name,
                        [i \in 1..Len(build.builder.buildbot.name) |-> "="], <<>> >>
                ELSE <<>>)
             \o (IF new_builder THEN << <<>>, build.builder.name >> ELSE <<>>)
             \o << [result      |-> upper(build._info.result),
                    sequence    |-> build.sequence,
                    branch      |-> build._info.branch,
                    revision    |-> build._info.revision,
                    finished_at |-> build._info.finished_at] >>
             \o text_lines(Tail(bs),
                           IF new_bb THEN <<build.builder.buildbot>> ELSE bb,
                           IF new_builder THEN <<build.builder>> ELSE builder)

\* Builds.as_text: the lines that are joined with linefeeds
as_text(bs) == text_lines(bs, <<>>, <<>>)

\* as_code(name)
as_code(name) == join(<<"-">>, split_whitespace(lower(name)))

\* the lines of Builds.as_html for the builds; a line with values formatted
\* into it is kept as its tag and those values
RECURSIVE html_lines(_, _, _)
html_lines(bs, bb, builder) ==
    IF bs = <<>> THEN <<>>
    ELSE LET build == Head(bs)
             new_bb == bb = <<>> \/ ~Buildbot_eq(build.builder.buildbot, bb[1])
             new_builder == builder = <<>> \/ ~Builder_eq(build.builder, builder[1])
             repo_url == build.builder.buildbot.repo_url
         IN  (IF new_bb
                THEN << [tag |-> "h1", url |-> build.builder.buildbot.url,
                         repo_url |-> repo_url] >>
                ELSE <<>>)
             \o (IF new_builder
                   THEN (IF builder # <<>> THEN <<"</ul>", "</div>">> ELSE <<>>)
                        \o << [tag |-> "div", class |-> "builder",
                               id |-> as_code(build.builder.name)],
                              [tag |-> "h2", href |-> build.builder.url,
                               text |-> build.builder.name],
                              "<ul>" >>
                   ELSE <<>>)
             \o << [tag      |-> "li",
                    class    |-> lower(build._info.result),
                    outcome  |-> upper(build._info.result),
                    href     |-> build.url,
                    sequence |-> build.sequence,
                    branch   |-> build._info.branch,
                    rev_href |-> IF repo_url # <<>>
                                 THEN repo_url \o <<"/", "r", "e", "v", "/">>
                                      \o build._info.revision
                                 ELSE <<"#">>,
                    revision |-> build._info.revision,
                    finished_at |-> build._info.finished_at] >>
             \o html_lines(Tail(bs),
                           IF new_bb THEN <<build.builder.buildbot>> ELSE bb,
                           IF new_builder THEN <<build.builder>> ELSE builder)

\* Builds.as_html: the lines that are joined with linefeeds
as_html(bs) ==
    << "<!DOCTYPE html>", "<meta charset=utf-8>", "<html>", "<head>",
       "<title>Buildbot Info</title>",
       [tag |-> "style",
        rules |-> <<"body", ".outcome", ".success", ".failure", ".exception", ".retry",
                    "li.build">>],
       "</head>", "<body>" >>
    \o html_lines(bs, <<>>, <<>>)
    \o (IF bs # <<>> THEN <<"</ul>", "</div>">> ELSE <<>>)
    \o <<"</body>", "</html>">>

Returned(mimetype, output) == [raises |-> "none", mimetype |-> mimetype, output |-> output]
Raised(exception) == [raises |-> exception]

\* Builds.as_json: dict(b) asks the build for "keys", which Build.__getattr__
\* looks up in _info, where it is missing
as_json(bs) == IF bs = <<>> THEN Returned(<<"a", "p", "p", "l", "i", "c", "a", "t", "i", "o", "n", "/", "j", "s", "o", "n">>, <<"[", "]">>)
               ELSE Raised("KeyError")

TEXT == <<"t", "e", "x", "t">>
HTML == <<"h", "t", "m", "l">>
JSON == <<"j", "s", "o", "n">>

\* Builds.output_as(format): getattr(self, "as_" + format)()
output_as(bs, format) ==
    IF format = TEXT
    THEN Returned(<<"t", "e", "x", "t", "/", "p", "l", "a", "i", "n">>, as_text(bs))
    ELSE IF format = HTML
    THEN Returned(<<"t", "e", "x", "t", "/", "h", "t", "m", "l">>, as_html(bs))
    ELSE IF format = JSON THEN as_json(bs)
    ELSE Raised("AttributeError")

\* to_email(mimetype, content): the message, with the boundary that
\* MIMEMultipart draws at random
to_email(mimetype, content, boundary) ==
    LET maintype == split(mimetype, "/")[1]
        message_part ==
            IF maintype = TEXT
            THEN [Content_Type |-> mimetype, charset |-> "utf-8",
                  Content_Transfer_Encoding |-> "base64", payload |-> [base64 |-> content]]
            ELSE [Content_Type |-> mimetype, payload |-> content]
    IN  [Content_Type |-> "multipart/mixed", boundary |-> boundary,
         Subject |-> "Buildbot info", parts |-> <<message_part>>]

----------------------------------------------------------------------------
(* get_builds *)

IsNone(x) == x.type = "None"
IsList(x) == x.type = "list"

\* patterns = pattern if isinstance(pattern, list) else [pattern]
patterns_of(pattern) == IF IsList(pattern) THEN pattern.v ELSE <<pattern.v>>

\* always_statuses = set(a.lower() for a in always_status)
always_statuses_of(always_status) ==
    LET lst == IF IsNone(always_status) THEN <<>>
               ELSE IF ~IsList(always_status) THEN <<always_status.v>>
               ELSE always_status.v
    IN  {lower(lst[i]) : i \in DOMAIN lst}

\* since
since_of(since_minutes) ==
    IF IsNone(since_minutes) THEN DatetimeMin
    ELSE Now - timedelta(since_minutes.v)

\* the recency test with <= for <
recent_builds_strict(fetched, since) ==
    LET Keep(build) == ~(build._info.finished_at <= since)
    IN  SelectSeq(fetched, Keep)

\* the builds of one builder that pass "finished_at < since: continue"
recent_builds(fetched, since) ==
    LET Keep(build) == ~(build._info.finished_at < since)
    IN  SelectSeq(fetched, Keep)

\* the status test with any() for all()
yield_of_any(kept, always_statuses) ==
    IF always_statuses # {}
       /\ ~(\E i \in DOMAIN kept : lower(kept[i]._info.result) \in always_statuses)
    THEN <<>>
    ELSE kept

\* the status test applied to each build on its own
yield_of_each(kept, always_statuses) ==
    LET Ok(build) == lower(build._info.result) \in always_statuses
    IN  IF always_statuses # {} THEN SelectSeq(kept, Ok) ELSE kept

\* what the loop body yields for one builder, given the builds kept
yield_of(kept, always_statuses) ==
    IF always_statuses # {}
       /\ ~(\A i \in DOMAIN kept : lower(kept[i]._info.result) \in always_statuses)
    THEN <<>>
    ELSE kept

patterns == patterns_of(args.pattern)
always_statuses == always_statuses_of(args.always_status)
since == since_of(args.since_minutes)
bb == Buildbot(args.buildbot_url, args.repo_url)

----------------------------------------------------------------------------
(* Inputs *)

B_WIN == <<"b", "-", "w", "i", "n">>
B_LIN == <<"b", "-", "l", "i", "n">>

\* the order in which the server lists its builders
ServerNames == <<B_WIN, B_LIN>>

PatternChoices == { <<"*", "l", "i", "n", "*">>, <<"b", "-", "*">>,
                    <<"b", "-", "[", "!", "u", "-", "z", "]", "i", "n">> }

FAILURE == <<"F", "a", "i", "l", "u", "r", "e">>
SUCCESS == <<"s", "u", "c", "c", "e", "s", "s">>
ResultChoices == {FAILURE, SUCCESS}

AgeChoices == {30, 120}      \* minutes before Now at which a build finished
SinceChoices == {30, 60}

None == [type |-> "None"]
PyStr(s) == [type |-> "str", v |-> s]
PyList(l) == [type |-> "list", v |-> l]
PyInt(n) == [type |-> "int", v |-> n]

AlwaysStatusChoice1 == PyStr(<<"F", "A", "I", "L", "U", "R", "E">>)

AlwaysStatusChoices ==
    { None,
      AlwaysStatusChoice1,
      PyList(<< <<"f", "a", "i", "l", "u", "r", "e">>, <<"S", "u", "c", "c", "e", "s", "s">> >>) }

SeqsUpTo(S, n) == UNION {[1..k -> S] : k \in 0..n}

\* a record as the server sends it
RawBuild(name, sequence, age, result) ==
    <<name, sequence, (Now - age - 10) * 60, (Now - age) * 60,
      <<"3", ".", "x">>, <<"a", "1">>, result, <<>>, <<>>>>

\* the records of one builder, at most k of them with (result, age) in RA,
\* newest first: sequence numbers and finish times do not increase along the
\* list
Histories(name, k, RA) ==
    { [i \in 1..Len(h) |-> RawBuild(name, Len(h) - i + 1, h[i][2], h[i][1])] :
        h \in {g \in SeqsUpTo(RA, k) :
                 \A i \in 1..(Len(g) - 1) : g[i][2] <= g[i + 1][2]} }

NameLists == { <<>>, <<ServerNames[1]>>, <<ServerNames[2]>>, ServerNames }

\* the servers whose builders have at most k records each
Servers(k, RA) ==
    UNION { { [builders |-> nl, history |-> h] :
                h \in {f \in [Range(nl) -> UNION {Histories(n, k, RA) : n \in Range(nl)}] :
                         \A n \in Range(nl) : f[n] \in Histories(n, k, RA)} } :
            nl \in NameLists }

HTTP == <<"h", "t", "t", "p", ":", "/", "/">>

\* the arguments of cli, with the pattern, the always-status, the recency
\* window, the build count and (output_as, for_email) drawn from P, A, S, N
\* and O
CliArgs(P, A, S, N, O) ==
    { [buildbot_url    |-> HTTP \o <<"b", "/">>,
       repo_url        |-> HTTP \o <<"r", "/">>,
       pattern         |-> p,
       always_status   |-> a,
       since_minutes   |-> s,
       latest_n_builds |-> n,
       output_as       |-> o[1],
       for_email       |-> o[2]] :
        p \in P, a \in A, s \in S, n \in N, o \in O }

\* --output-as takes any string
OutputChoices == {TEXT, HTML, JSON, <<"x", "m", "l">>}

\* boundaries of a multipart message
Boundaries == {"===============1==", "===============2=="}

SinglePatterns == {PyStr(p) : p \in PatternChoices}
PatternLists == {PyList(l) : l \in SeqsUpTo(PatternChoices, MaxPatterns)}

----------------------------------------------------------------------------
(* The run of cli *)

\* cli is entered and get_builds has not made a call yet
Start ==
    /\ pc = "get_builds"
    /\ pi = 0
    /\ matched = <<>>
    /\ bi = 1
    /\ yielded = <<>>
    /\ calls = <<>>
    /\ builds = <<>>
    /\ stdout = <<>>
    /\ error = "none"

\* Runs over every history of up to MaxBuilds records per builder and every
\* setting of the filters, for a single pattern.
Init ==
    /\ server \in Servers(MaxBuilds, ResultChoices \X AgeChoices)
    /\ args \in CliArgs(SinglePatterns, AlwaysStatusChoices,
                        {None} \cup {PyInt(m) : m \in SinceChoices}, 1..MaxN,
                        {<<TEXT, FALSE>>})
    /\ Start

\* for pattern in patterns: builders = bb.builders(pattern)
ListBuilders ==
    /\ pc = "get_builds"
    /\ bi > Len(matched)
    /\ pi < Len(patterns)
    /\ pi' = pi + 1
    /\ matched' = builders(bb, server, patterns[pi + 1])
    /\ bi' = 1
    /\ calls' = Append(calls, [op |-> "getAllBuilders"])
    /\ UNCHANGED <<server, args, pc, yielded, builds, stdout, error>>

\* the loop body calling the server twice for one builder
FetchBuilds_twice ==
    /\ pc = "get_builds"
    /\ bi <= Len(matched)
    /\ \E fetched \in {last_n_builds(matched[bi], server, args.latest_n_builds)} :
       \E kept \in {recent_builds(fetched, since)} :
          /\ yielded' = yielded \o yield_of(kept, always_statuses)
          /\ calls' = calls \o [c \in 1..2 |->
                                   [op |-> "getLastBuilds", name |-> matched[bi].name,
                                    n |-> args.latest_n_builds, fetched |-> fetched]]
    /\ bi' = bi + 1
    /\ UNCHANGED <<server, args, pc, pi, matched, builds, stdout, error>>

\* for builder in builders: the loop body, for one builder
FetchBuilds ==
    /\ pc = "get_builds"
    /\ bi <= Len(matched)
    /\ \E fetched \in {last_n_builds(matched[bi], server, args.latest_n_builds)} :
       \E kept \in {recent_builds(fetched, since)} :
          /\ yielded' = yielded \o yield_of(kept, always_statuses)
          /\ calls' = Append(calls, [op |-> "getLastBuilds", name |-> matched[bi].name,
                                     n |-> args.latest_n_builds, fetched |-> fetched])
    /\ bi' = bi + 1
    /\ UNCHANGED <<server, args, pc, pi, matched, builds, stdout, error>>

\* _proxy.getAllBuilders() raises
ListFails ==
    /\ pc = "get_builds"
    /\ bi > Len(matched)
    /\ pi < Len(patterns)
    /\ calls' = Append(calls, [op |-> "getAllBuilders"])
    /\ error' = "Fault"
    /\ pc' = "aborted"
    /\ UNCHANGED <<server, args, pi, matched, bi, yielded, builds, stdout>>

\* _proxy.getLastBuilds() raises and the loop goes on to the next builder
FetchFails_masked ==
    /\ pc = "get_builds"
    /\ bi <= Len(matched)
    /\ calls' = Append(calls, [op |-> "getLastBuilds", name |-> matched[bi].name,
                               n |-> args.latest_n_builds, fetched |-> <<>>])
    /\ error' = "Fault"
    /\ bi' = bi + 1
    /\ UNCHANGED <<server, args, pc, pi, matched, yielded, builds, stdout>>

\* _proxy.getLastBuilds() raises
FetchFails ==
    /\ pc = "get_builds"
    /\ bi <= Len(matched)
    /\ calls' = Append(calls, [op |-> "getLastBuilds", name |-> matched[bi].name,
                               n |-> args.latest_n_builds, fetched |-> <<>>])
    /\ error' = "Fault"
    /\ pc' = "aborted"
    /\ UNCHANGED <<server, args, pi, matched, bi, yielded, builds, stdout>>

\* the generator is exhausted: Builds(...), output_as(...), to_email(...) if
\* for_email, sys.stdout.write
Finish ==
    /\ pc = "get_builds"
    /\ bi > Len(matched)
    /\ pi >= Len(patterns)
    /\ \E bs \in Builds(yielded) :
          /\ builds' = bs
          /\ \E out \in {output_as(bs, args.output_as)} :
                IF out.raises # "none"
                THEN /\ error' = out.raises
                     /\ pc' = "aborted"
                     /\ stdout' = stdout
                ELSE /\ error' = error
                     /\ pc' = "done"
                     /\ IF args.for_email
                        THEN \E boundary \in Boundaries :
                                stdout' = Append(stdout,
                                                 to_email(out.mimetype, out.output, boundary))
                        ELSE stdout' = Append(stdout, out.output)
    /\ UNCHANGED <<server, args, pi, matched, bi, yielded, calls>>

Next == ListBuilders \/ FetchBuilds \/ ListFails \/ FetchFails \/ Finish

Spec == Init /\ [][Next]_vars

\* Runs over every pattern argument, a single pattern or a list of up to
\* MaxPatterns patterns, and every output format, for servers of at most one
\* record per builder and no recency window.
PatternsInit ==
    /\ server \in Servers(1, ResultChoices \X {30})
    /\ args \in CliArgs(SinglePatterns \cup PatternLists, {None, AlwaysStatusChoice1},
                        {None}, {1}, OutputChoices \X BOOLEAN)
    /\ Start

PatternsSpec == PatternsInit /\ [][Next]_vars

\* Runs over every pattern argument without filters, with an output that is
\* written, one that fails to render and one that is wrapped for email.
FairInit ==
    /\ server \in Servers(1, {<<FAILURE, 30>>})
    /\ args \in CliArgs(SinglePatterns \cup PatternLists, {None}, {None}, {1},
                        {<<TEXT, FALSE>>, <<JSON, FALSE>>, <<HTML, TRUE>>})
    /\ Start

\* The run is single-threaded: a step that can be taken is taken.
FairSpec == FairInit /\ [][Next]_vars /\ WF_vars(Next)

----------------------------------------------------------------------------
(* Builds applied to any iterable of builds *)

\* (url, repo_url) of the servers; the first two are the same server
BuildbotChoices ==
    { << HTTP \o <<"b">>, <<>> >>,
      << HTTP \o <<"b", "/", "/">>, HTTP \o <<"r">> >>,
      << HTTP \o <<"a", "/">>, <<>> >> }

\* the builds handed to Builds: last_n_builds takes the name of a build from
\* the server's record of it, which here is the builder's name or another one
BuildChoices ==
    { Build(Builder(Buildbot(u[1], u[2]), n),
            [name |-> IF own THEN n ELSE <<"x">>, sequence |-> q,
             started_at |-> Now - 40, finished_at |-> Now - 30,
             branch |-> <<"3", ".", "x">>, revision |-> <<"a", "1">>,
             result |-> r, text |-> <<>>, reasons |-> <<>>]) :
        u \in BuildbotChoices, n \in Range(ServerNames), own \in BOOLEAN,
        q \in 1..2, r \in ResultChoices }

\* Default params
BUILDBOT_URL ==
    <<"h", "t", "t", "p", ":", "/", "/", "b", "u", "i", "l", "d", "b", "o",
      "t", ".", "p", "y", "t", "h", "o", "n", ".", "o", "r", "g", "/">>
REPO_URL ==
    <<"h", "t", "t", "p", ":", "/", "/", "h", "g", ".", "p", "y", "t", "h",
      "o", "n", ".", "o", "r", "g", "/", "c", "p", "y", "t", "h", "o", "n",
      "/">>
PATTERN == PyStr(<<"*">>)
ALWAYS_STATUS == None
SINCE_MINUTES == None
LATEST_N_BUILDS == 1
OUTPUT_AS == TEXT
FOR_EMAIL == FALSE

\* the arguments of cli() called with none
DefaultArgs ==
    [buildbot_url    |-> BUILDBOT_URL,
     repo_url        |-> REPO_URL,
     pattern         |-> PATTERN,
     always_status   |-> ALWAYS_STATUS,
     since_minutes   |-> SINCE_MINUTES,
     latest_n_builds |-> LATEST_N_BUILDS,
     output_as       |-> OUTPUT_AS,
     for_email       |-> FOR_EMAIL]

BuildsInit ==
    /\ server = [builders |-> <<>>, history |-> <<>>]
    /\ args = DefaultArgs
    /\ pc = "Builds"
    /\ pi = 0
    /\ matched = <<>>
    /\ bi = 1
    /\ yielded \in SeqsUpTo(BuildChoices, MaxInput)
    /\ calls = <<>>
    /\ builds = <<>>
    /\ stdout = <<>>
    /\ error = "none"

\* Builds(iterable)
NewBuilds ==
    /\ pc = "Builds"
    /\ builds' \in Builds(yielded)
    /\ pc' = "collected"
    /\ UNCHANGED <<server, args, pi, matched, bi, yielded, calls, stdout, error>>

BuildsNext == NewBuilds

BuildsSpec == BuildsInit /\ [][BuildsNext]_vars

----------------------------------------------------------------------------
(* Properties of the build collection *)

Collected == pc \in {"collected", "done"}

\* (server URL, builder name, sequence) of a build
Triple(b) == <<b.builder.buildbot.url, b.builder.name, b.sequence>>

\* C1 as stated: once the collection is built, it holds exactly one build
\* for every (server URL, builder name, sequence) triple of its input, and no
\* build for any other triple.
C1_DedupExactlyOne ==
    Collected =>
        /\ \A j \in DOMAIN yielded :
              Cardinality({i \in DOMAIN builds : Triple(builds[i]) = Triple(yielded[j])}) = 1
        /\ \A i \in DOMAIN builds :
              \E j \in DOMAIN yielded : Triple(yielded[j]) = Triple(builds[i])

\* a comes before b in the documented order
Before(a, b) ==
    \/ str_lt(a.builder.buildbot.name, b.builder.buildbot.name)
    \/ /\ a.builder.buildbot.name = b.builder.buildbot.name
       /\ str_lt(a.builder.name, b.builder.name)
    \/ /\ a.builder.buildbot.name = b.builder.buildbot.name
       /\ a.builder.name = b.builder.name
       /\ a.sequence > b.sequence

\* C2 as stated: the collection is ordered by server name ascending, then
\* builder name ascending, then sequence descending: each build comes
\* strictly before its successor in that order.
C2_Ordered ==
    Collected => \A i \in 1..(Len(builds) - 1) : Before(builds[i], builds[i + 1])

----------------------------------------------------------------------------
(* Properties of get_builds and cli *)

ListCalls == {i \in DOMAIN calls : calls[i].op = "getAllBuilders"}
FetchCalls == {i \in DOMAIN calls : calls[i].op = "getLastBuilds"}

\* the builds in the output of get_builds that belong to a builder
YieldedOf(name) == {i \in DOMAIN yielded : yielded[i].builder.name = name}

\* the build did not finish before now - sinceMinutes, if that is set
AtOrAfterCutoff(b) ==
    \/ args.since_minutes.type = "None"
    \/ b._info.finished_at >= Now - args.since_minutes.v

\* the always-status values as configured
Configured ==
    IF args.always_status.type = "None" THEN {}
    ELSE IF args.always_status.type = "str" THEN {args.always_status.v}
    ELSE Range(args.always_status.v)

\* the outcome of the build is in the configured set, ignoring case
InS(b) == \E x \in Configured : lower(x) = lower(b._info.result)

IsSuccess(b) == lower(b._info.result) = SUCCESS

\* the run has ended: the output was written, or a call or the rendering
\* failed
Terminated == pc \in {"done", "aborted"}

\* get_builds ran to its end: the output was written, or rendering it failed
Exhausted == pc = "done" \/ error \in {"KeyError", "AttributeError"}

OnServer(name) == \E i \in DOMAIN server.builders : server.builders[i] = name
MatchesSome(name) == \E i \in DOMAIN patterns : fnmatch(name, patterns[i])

\* C3: no build in the output finished before the cutoff; a fetched build
\* that finished at or after the cutoff (any fetched build, when sinceMinutes
\* is unset) is in the output unless the always-status policy discarded its
\* builder.
C3_Recency ==
    /\ \A i \in DOMAIN yielded : AtOrAfterCutoff(yielded[i])
    /\ \A c \in FetchCalls : \A k \in DOMAIN calls[c].fetched :
          AtOrAfterCutoff(calls[c].fetched[k]) =>
              \/ \E i \in DOMAIN yielded : yielded[i] = calls[c].fetched[k]
              \/ /\ Configured # {}
                 /\ \E m \in DOMAIN calls[c].fetched :
                       /\ AtOrAfterCutoff(calls[c].fetched[m])
                       /\ ~InS(calls[c].fetched[m])

\* two builds fetched for a builder with a 60 minute window and no outcome
\* filter: the one finished 120 minutes ago is dropped, the one finished 30
\* minutes ago is the builder's only output
C3_Witness ==
    /\ pc = "done"
    /\ args.since_minutes = PyInt(60)
    /\ args.latest_n_builds = 2
    /\ Configured = {}
    /\ \E c \in FetchCalls :
          /\ Len(calls[c].fetched) = 2
          /\ calls[c].fetched[1]._info.finished_at = Now - 30
          /\ calls[c].fetched[2]._info.finished_at = Now - 120
          /\ \A i \in YieldedOf(calls[c].name) : yielded[i] = calls[c].fetched[1]
          /\ YieldedOf(calls[c].name) # {}

\* C4: under a non-empty always-status set, for every builder either all of
\* its builds in the output have an outcome in the set, or it has no build
\* in the output.
C4_AllOrNone ==
    Configured # {} =>
        \A n \in DOMAIN ServerNames :
            \/ \A i \in YieldedOf(ServerNames[n]) : InS(yielded[i])
            \/ YieldedOf(ServerNames[n]) = {}

\* one builder whose two fetched builds are both in the set has both in the
\* output; another with a build outside the set has none
C4_Witness ==
    /\ pc = "done"
    /\ Configured # {}
    /\ \E c, d \in FetchCalls :
          /\ Len(calls[c].fetched) = 2
          /\ \A k \in DOMAIN calls[c].fetched : InS(calls[c].fetched[k])
          /\ Cardinality({yielded[i] : i \in YieldedOf(calls[c].name)}) = 2
          /\ Len(calls[d].fetched) = 2
          /\ InS(calls[d].fetched[1])
          /\ ~InS(calls[d].fetched[2])
          /\ YieldedOf(calls[d].name) = {}

\* C5 as stated: under a non-empty always-status set, a builder with a
\* fetched build whose outcome is outside the set has no build in the output.
C5_AnyFetchedOutsideDiscards ==
    Configured # {} =>
        \A c \in FetchCalls :
            (\E k \in DOMAIN calls[c].fetched : ~InS(calls[c].fetched[k]))
                => YieldedOf(calls[c].name) = {}

\* C5 amended: under a non-empty always-status set, a builder with a fetched
\* build that passed the recency filter and whose outcome is outside the set
\* has no build in the output.
C5_RecentOutsideDiscards ==
    Configured # {} =>
        \A c \in FetchCalls :
            (\E k \in DOMAIN calls[c].fetched :
                AtOrAfterCutoff(calls[c].fetched[k]) /\ ~InS(calls[c].fetched[k]))
                => YieldedOf(calls[c].name) = {}

\* a builder with two recent builds, one inside and one outside the set, is
\* discarded, while another builder's builds are in the output
C5_Witness ==
    /\ pc = "done"
    /\ Configured # {}
    /\ yielded # <<>>
    /\ \E c \in FetchCalls :
          /\ Len(calls[c].fetched) = 2
          /\ \A k \in DOMAIN calls[c].fetched : AtOrAfterCutoff(calls[c].fetched[k])
          /\ ~InS(calls[c].fetched[1])
          /\ InS(calls[c].fetched[2])
          /\ YieldedOf(calls[c].name) = {}

\* the only-failures policy: of the builds of a builder that passed the
\* recency filter, those whose outcome is "success" are dropped and the rest
\* are output
only_failures(kept) ==
    LET Keep(build) == ~IsSuccess(build)
    IN  SelectSeq(kept, Keep)

EXCEPTION == <<"e", "x", "c", "e", "p", "t", "i", "o", "n">>

\* values of the always_status argument, the one outcome setting that
\* get_builds and the command line take: none, a status, a list of statuses
OutcomeFilterChoices ==
    LET Words == {FAILURE, lower(FAILURE), upper(SUCCESS), EXCEPTION}
    IN  AlwaysStatusChoices \cup {PyStr(w) : w \in Words}
                            \cup {PyList(l) : l \in SeqsUpTo(Words, 2)}

\* C6 as stated: the tool supports an only-failures policy, that is, the
\* outcome filter has a setting under which, for every builder of the
\* server, every build count and every recency window, the builds output
\* for the builder are the fetched builds that passed the recency filter
\* less those whose outcome is "success"; so that under this setting the
\* output never holds a build whose outcome is "success".
C6_OnlyFailuresSupported ==
    \E a \in OutcomeFilterChoices :
        \A s \in {None} \cup {PyInt(m) : m \in SinceChoices} :
            \A n \in DOMAIN server.builders : \A k \in 1..MaxN :
                \E kept \in {recent_builds(last_n_builds(Builder(bb, server.builders[n]),
                                                        server, k),
                                          since_of(s))} :
                    /\ yield_of(kept, always_statuses_of(a)) = only_failures(kept)
                    /\ \A i \in DOMAIN yield_of(kept, always_statuses_of(a)) :
                          ~IsSuccess(yield_of(kept, always_statuses_of(a))[i])

\* C7: every build in the output belongs to a builder that is on the server
\* and matches one of the patterns; build records are fetched only for such
\* builders, and by the end of the run for every one of them.
C7_PatternSelection ==
    /\ \A i \in DOMAIN yielded :
          OnServer(yielded[i].builder.name) /\ MatchesSome(yielded[i].builder.name)
    /\ \A c \in FetchCalls : OnServer(calls[c].name) /\ MatchesSome(calls[c].name)
    /\ Exhausted =>
          \A n \in DOMAIN server.builders :
              MatchesSome(server.builders[n]) =>
                  \E c \in FetchCalls : calls[c].name = server.builders[n]

\* both builders are on the server with builds, the pattern is *lin*, and the
\* output is the builds of b-lin
C7_Witness ==
    /\ pc = "done"
    /\ server.builders = <<B_WIN, B_LIN>>
    /\ server.history[B_WIN] # <<>>
    /\ patterns = << <<"*", "l", "i", "n", "*">> >>
    /\ yielded # <<>>
    /\ \A i \in DOMAIN yielded : yielded[i].builder.name = B_LIN

\* C8 as stated: whatever the patterns argument, get_builds normalizes it
\* to a non-empty list of patterns, a single pattern becoming a one-element
\* list, and every run that has ended, with its output written or aborted,
\* has made at least one builder-listing call.
C8_AlwaysListsBuilders ==
    /\ patterns # <<>>
    /\ args.pattern.type = "str" => patterns = <<args.pattern.v>>
    /\ Terminated => ListCalls # {}

\* C9: once a remote call has failed the run is aborted: nothing is
\* collected for rendering, nothing is written to standard output, and no
\* further step is taken.
C9_FailureAborts ==
    error = "Fault" =>
        /\ pc = "aborted"
        /\ builds = <<>>
        /\ stdout = <<>>
        /\ ~ENABLED Next

\* the second builder's fetch fails after the first builder's builds were
\* yielded
C9_Witness ==
    /\ pc = "aborted"
    /\ error = "Fault"
    /\ yielded # <<>>
    /\ Len(calls) >= 3
    /\ calls[Len(calls)].op = "getLastBuilds"

\* builders on the server that match the pattern
Matching(pattern) ==
    {n \in DOMAIN server.builders : fnmatch(server.builders[n], pattern)}

\* one listing call per pattern and one fetch per builder it matches, over
\* the first k patterns
RECURSIVE CallsFor(_)
CallsFor(k) ==
    IF k = 0 THEN 0 ELSE CallsFor(k - 1) + 1 + Cardinality(Matching(patterns[k]))

\* C10 as stated: the number of remote calls, listing calls included, is at
\* most patterns x builders.
C10_CallsWithinProduct == Len(calls) <= Len(patterns) * Len(server.builders)

CallCount ==
    /\ Len(calls) <= CallsFor(Len(patterns))
    /\ Len(calls) <= Len(patterns) * (1 + Len(server.builders))
    /\ Cardinality(FetchCalls) <= Len(patterns) * Len(server.builders)
    /\ Exhausted => Len(calls) = CallsFor(Len(patterns))

\* C10 amended: every run terminates, and the number of remote calls is one
\* listing call per pattern plus one fetch call per builder matching that
\* pattern, hence at most patterns x (1 + builders), of which at most
\* patterns x builders are fetch calls.
C10_TerminatesWithBoundedCalls == [](CallCount) /\ <>Terminated

\* a completed run of two overlapping patterns that fetched a builder twice
C10_Witness ==
    /\ pc = "done"
    /\ Len(patterns) = 2
    /\ Len(calls) = 6
    /\ \E c, d \in FetchCalls : c # d /\ calls[c].name = calls[d].name

====
